---------------------------- MODULE Spec2Model ----------------------------
(***************************************************************************)
(* A model of mediaire_toolbox.transaction_db: the schema migration run   *)
(* by TransactionDB.__init__ (migrate, migrate_scripts) and the locked     *)
(* transaction-lifecycle operations of TransactionDB.                      *)
(*                                                                         *)
(* Four workloads are specified over the same state:                       *)
(*   MigSpec   a store file that is opened (and re-opened) by one process, *)
(*             every statement, script, commit and file copy of the open   *)
(*             being a step that may succeed or raise;                     *)
(*   Spec      an opened, current store used by a single caller;           *)
(*   ConcSpec  the same store used by threads that share one               *)
(*             TransactionDB instance;                                     *)
(*   LifeSpec  a single caller that takes rows through their lifecycle,    *)
(*             the clock moving on between its calls.                      *)
(***************************************************************************)
EXTENDS Integers, Sequences, FiniteSets, TLC

(***************************************************************************)
(* Bounds of the model.                                                    *)
(***************************************************************************)
\* Opens of the store file in one behaviour of MigSpec.
MaxOpens == 2

\* Rows the transactions table may come to hold.
MaxRows == 2

\* The last reading of the clock: a caller of LifeSpec makes each call at a
\* later reading than the call before.
MaxClock == 4

\* The holds a thread may come to have of the lock: MaxDepth - 1 guarded
\* methods called one inside the other.
MaxDepth == 2

(***************************************************************************)
(* Program constants.                                                      *)
(***************************************************************************)
\* mediaire_toolbox.constants.TRANSACTIONS_DB_SCHEMA_VERSION: the highest
\* key of MIGRATIONS.
TRANSACTIONS_DB_SCHEMA_VERSION == 5

NoneV == "None"

Stmt(op, column, value, where, negate) ==
    [op |-> op, column |-> column, value |-> value, where |-> where,
     negate |-> negate]

AddColumn(column, default) == Stmt("add_column", column, default, NoneV, FALSE)

Update(column, value, where) == Stmt("update", column, value, where, FALSE)

UpdateNot(column, value, where) == Stmt("update", column, value, where, TRUE)

\* migrations.MIGRATIONS, keyed by target version.
MIGRATIONS ==
    [v \in 2..5 |->
       CASE v = 2 -> << AddColumn("task_progress", "0"),
                        Update("task_progress", "10", "spm_lesion"),
                        Update("task_progress", "10", "spm_volumetry"),
                        Update("task_progress", "80", "volumetry_assessment"),
                        Update("task_progress", "90", "report"),
                        Update("task_progress", "100", "send_to_pacs") >>
         [] v = 3 -> << AddColumn("task_skipped", "0") >>
         [] v = 4 -> << AddColumn("task_cancelled", "0") >>
         [] v = 5 -> << AddColumn("status", NoneV),
                        AddColumn("institution", NoneV),
                        AddColumn("sequences", NoneV),
                        Update("status", "sent_to_pacs", "send_to_pacs"),
                        UpdateNot("status", "unseen", "send_to_pacs") >>]

\* The statements of the batches of the versions in S, as <<version, index>>.
Statements(S) ==
    { p \in S \X (1..6) : p[2] <= Len(MIGRATIONS[p[1]]) }

VARIABLES
    \* ---- the store file and what is persisted in it
    schema_version,       \* schema_version row; 0: the table holds no row
    schema,               \* committed schema-change statements, <<v, i>>
    filled,               \* filled[v]: committed runs of the scripts of v
    backups,              \* version tags v of the copies <file>.v_<v>.bkp
    \* ---- the session of the opening process
    sess_stmts,           \* statements executed and not yet committed
    sess_version,         \* pending write of db_version.schema_version, or 0
    sess_filled,          \* versions whose scripts ran and are uncommitted
    \* ---- TransactionDB.__init__ / migrate / migrate_scripts
    mpc,                  \* position of the opening process
    create_db,            \* argument of __init__
    db_file_path,         \* argument of __init__: TRUE when a path is given
    script_versions,      \* the versions MIGRATIONS_SCRIPTS declares scripts for
    from_schema_version,  \* migrate: db_version.schema_version at entry
    version,              \* migrate: the loop variable of its two loops
    idx,                  \* migrate: index of the next command of the batch
    script_version,       \* migrate_scripts: its loop variable
    opens,                \* number of times the store was opened
    \* ---- history of the current open
    executed,             \* statements handed to session.execute, in order
    applied,              \* values committed to schema_version, in order
    script_log,           \* versions whose scripts were run, in order
    failed_in,            \* where the open raised: none, backup, ddl, scripts
    version_at_open,      \* the persisted schema_version when __init__ began
    failed_before,        \* where the opens before this one raised
    \* ---- the tables of an opened store
    db,                   \* transactions: db[i] is the row with id i
    id_seq,               \* the last transaction_id the table assigned
    user_transactions,    \* users_transactions: << user_id, transaction_id >>
    now,                  \* the clock utcnow() reads
    \* ---- one TransactionDB instance shared by threads
    lock_owner,           \* self.lock (an RLock): the owning thread, or 0
    lock_count,           \* self.lock: how often its owner acquired it
    sess,                 \* self.session (a scoped_session): per thread
    pc,                   \* per thread: its position in a call
    call,                 \* per thread: the method called and its arguments
    tid,                  \* per thread: t.transaction_id in create_transaction
    ret,                  \* per thread: what the call returns or raises
    \* ---- history of the calls
    old,                  \* the store as the holder of the lock found it
    last_peek,            \* the call before, and its result, if a peek_queued
    \* ---- the callers of the instance
    attempt,              \* per thread: the attempt t_db_retry is making
    job,                  \* per worker: the row it peeked, claimed or not
    \* ---- the data cleaner
    cleaner,              \* the DataCleaner constructed, or what it raised
    files                 \* the files of the folder it cleans

mig_vars ==
    << schema_version, schema, filled, backups, sess_stmts, sess_version,
       sess_filled, mpc, create_db, db_file_path, script_versions,
       from_schema_version, version, idx, script_version, opens, executed,
       applied, script_log, failed_in, version_at_open, failed_before >>

db_vars == << db, id_seq, user_transactions, now >>

thread_vars == << lock_owner, lock_count, sess, pc, call, tid, ret >>

hist_vars == << old, last_peek >>

cleaner_vars == << cleaner, files >>

env_vars == << attempt, job, cleaner_vars >>

life_vars == << db_vars, thread_vars, hist_vars, env_vars >>

vars == << mig_vars, life_vars >>

Versions == 2..TRANSACTIONS_DB_SCHEMA_VERSION

(***************************************************************************)
(* Session primitives (sqlalchemy session.commit / session.rollback) of    *)
(* the opening process.                                                    *)
(***************************************************************************)
MigCommitStatementsFirst(stmts, ver, fill) ==
    /\ schema' = schema \cup stmts
    /\ schema_version' = IF stmts = {} /\ ver # 0 THEN ver ELSE schema_version
    /\ filled' = [v \in Versions |->
                    IF v \in fill THEN filled[v] + 1 ELSE filled[v]]
    /\ sess_stmts' = {}
    /\ sess_version' = 0
    /\ sess_filled' = {}

\* session.commit(): the pending statements stmts, the pending version
\* write ver (0: none) and the pending script results of the versions in
\* fill become persistent together.
MigCommit(stmts, ver, fill) ==
    /\ schema' = schema \cup stmts
    /\ schema_version' = IF ver # 0 THEN ver ELSE schema_version
    /\ filled' = [v \in Versions |->
                    IF v \in fill THEN filled[v] + 1 ELSE filled[v]]
    /\ sess_stmts' = {}
    /\ sess_version' = 0
    /\ sess_filled' = {}

\* session.rollback(): every pending write is dropped.
MigRollback ==
    /\ sess_stmts' = {}
    /\ sess_version' = 0
    /\ sess_filled' = {}
    /\ UNCHANGED << schema, schema_version, filled >>

\* What an exception leaves behind: the open has raised out of __init__.
Raised(where) ==
    /\ mpc' = "failed"
    /\ failed_in' = where

(***************************************************************************)
(* TransactionDB.__init__                                                  *)
(***************************************************************************)
\* model.SchemaVersion(): the row added to an empty schema_version table
\* holds the current version.
NewSchemaVersionRow == TRANSACTIONS_DB_SCHEMA_VERSION

MigrationNeededAtTarget(v) == v <= TRANSACTIONS_DB_SCHEMA_VERSION

\* `if db_version.schema_version < TRANSACTIONS_DB_SCHEMA_VERSION:`
MigrationNeeded(v) == v < TRANSACTIONS_DB_SCHEMA_VERSION

BackupNever(path) == FALSE

\* `if db_file_path:` the copy is made only when a path was given.
BackupWanted(path) == path

FirstVersionRestart(from) == 2

FirstVersionSkip(from) == from + 2

\* range(from_schema_version + 1, ...): the first version of both loops.
FirstVersion(from) == from + 1

\* range(..., TRANSACTIONS_DB_SCHEMA_VERSION + 1): the last version.
LastVersion == TRANSACTIONS_DB_SCHEMA_VERSION

\* __init__ up to the version test: the session is made, create_all(engine)
\* runs and the schema_version row is read, or added and committed.
Open(c, p) ==
    /\ mpc = "closed"
    /\ opens < MaxOpens
    /\ opens' = opens + 1
    /\ create_db' = c
    /\ db_file_path' = p
    /\ version_at_open' = schema_version
    /\ failed_before' = failed_before \cup ({failed_in} \ {"none"})
    /\ executed' = << >>
    /\ applied' = << >>
    /\ script_log' = << >>
    /\ failed_in' = "none"
    /\ IF ~c
         THEN /\ mpc' = "ready"
              /\ UNCHANGED << schema_version, schema >>
         ELSE IF schema_version = 0
           THEN \* first creation: create_all builds the tables in their
                \* current shape and the version row is added
                /\ schema_version' = NewSchemaVersionRow
                /\ schema' = Statements(Versions)
                /\ mpc' = "ready"
           ELSE /\ mpc' = IF MigrationNeeded(schema_version)
                            THEN "backup" ELSE "ready"
                /\ UNCHANGED << schema_version, schema >>
    /\ UNCHANGED << filled, backups, sess_stmts, sess_version, sess_filled,
                    script_versions, from_schema_version, version, idx,
                    script_version >>
    /\ UNCHANGED life_vars

\* migrate(): `from_schema_version = db_version.schema_version` and the
\* entry of the first loop.
EnterMigrate ==
    /\ from_schema_version' = schema_version
    /\ version' = FirstVersion(schema_version)
    /\ idx' = 1
    /\ mpc' = IF FirstVersion(schema_version) <= LastVersion
                THEN "ddl" ELSE "ready"

\* The backup branch of __init__, then the call of migrate.
Backup ==
    /\ mpc = "backup"
    /\ IF BackupWanted(db_file_path)
         THEN \/ /\ backups' = backups \cup {schema_version}
                 /\ EnterMigrate
                 /\ UNCHANGED failed_in
              \/ \* shutil.copy raises
                 /\ Raised("backup")
                 /\ UNCHANGED << backups, from_schema_version, version, idx >>
         ELSE /\ EnterMigrate
              /\ UNCHANGED << backups, failed_in >>
    /\ UNCHANGED << schema_version, schema, filled, sess_stmts, sess_version,
                    sess_filled, create_db, db_file_path, script_versions,
                    script_version, opens, executed, applied, script_log,
                    version_at_open,
                    failed_before >>
    /\ UNCHANGED life_vars

(***************************************************************************)
(* migrate: the schema-change loop                                         *)
(***************************************************************************)
MigrateFailureCommits ==
    /\ MigCommit(sess_stmts, 0, {})
    /\ Raised("ddl")

\* `except Exception as e: session.rollback(); session.close(); raise e`
MigrateFailure ==
    /\ MigRollback
    /\ Raised("ddl")

\* `session.execute(command).close()` for the next command of the batch.
ExecuteCommand ==
    /\ mpc = "ddl"
    /\ idx <= Len(MIGRATIONS[version])
    /\ executed' = Append(executed, << version, idx >>)
    /\ \/ /\ sess_stmts' = sess_stmts \cup {<< version, idx >>}
          /\ idx' = idx + 1
          /\ UNCHANGED << schema_version, schema, filled, sess_version,
                          sess_filled, mpc, failed_in >>
       \/ /\ MigrateFailure
          /\ UNCHANGED idx
    /\ UNCHANGED << backups, create_db, db_file_path, script_versions,
                    from_schema_version, version, script_version, opens,
                    applied, script_log, version_at_open,
                    failed_before >>
    /\ UNCHANGED life_vars

\* `db_version.schema_version = version`
SetVersion ==
    /\ mpc = "ddl"
    /\ idx = Len(MIGRATIONS[version]) + 1
    /\ sess_version' = version
    /\ idx' = idx + 1
    /\ UNCHANGED << schema_version, schema, filled, backups, sess_stmts,
                    sess_filled, mpc, create_db, db_file_path,
                    script_versions, from_schema_version, version,
                    script_version, opens, executed, applied, script_log,
                    failed_in, version_at_open,
                    failed_before >>
    /\ UNCHANGED life_vars

\* `session.commit()` of the batch; after the last version the first loop
\* ends and the second loop of migrate calls migrate_scripts.
CommitVersion ==
    /\ mpc = "ddl"
    /\ idx = Len(MIGRATIONS[version]) + 2
    /\ \/ /\ MigCommit(sess_stmts, sess_version, {})
          /\ applied' = Append(applied, sess_version)
          /\ IF version < LastVersion
               THEN /\ version' = version + 1
                    /\ idx' = 1
                    /\ UNCHANGED << mpc, script_version >>
               ELSE /\ version' = FirstVersion(from_schema_version)
                    /\ script_version' = FirstVersion(from_schema_version)
                    /\ idx' = 1
                    /\ mpc' = "scripts"
          /\ UNCHANGED failed_in
       \/ /\ MigrateFailure
          /\ UNCHANGED << applied, version, idx, script_version >>
    /\ UNCHANGED << backups, create_db, db_file_path, script_versions,
                    from_schema_version, opens, executed, script_log,
                    version_at_open,
                    failed_before >>
    /\ UNCHANGED life_vars

(***************************************************************************)
(* migrate: the second loop, and migrate_scripts                           *)
(***************************************************************************)
MigrateScriptsFailureCommits(pending) ==
    /\ MigCommit({}, 0, pending)
    /\ Raised("scripts")

MigrateScriptsFailureResetsVersion(pending) ==
    /\ sess_stmts' = {}
    /\ sess_version' = 0
    /\ sess_filled' = {}
    /\ schema_version' = from_schema_version
    /\ UNCHANGED << schema, filled >>
    /\ Raised("scripts")

\* migrate_scripts: `except Exception as e: session.rollback();
\* session.close(); logger.exception(e); raise e`.  pending: the versions
\* whose scripts have written to the session since its last commit.
MigrateScriptsFailure(pending) ==
    /\ MigRollback
    /\ Raised("scripts")

\* `for script in MIGRATIONS_SCRIPTS.get(version, []): script(session, model)`
\* for a version that declares scripts.
RunScript ==
    /\ mpc = "scripts"
    /\ idx = 1
    /\ script_version \in script_versions
    /\ script_log' = Append(script_log, script_version)
    /\ \/ /\ sess_filled' = sess_filled \cup {script_version}
          /\ idx' = 2
          /\ UNCHANGED << schema_version, schema, filled, sess_stmts,
                          sess_version, mpc, failed_in >>
       \/ \* a script raises, after writing part of its changes
          /\ MigrateScriptsFailure(sess_filled \cup {script_version})
          /\ UNCHANGED idx
    /\ UNCHANGED << backups, create_db, db_file_path, script_versions,
                    from_schema_version, version, script_version, opens,
                    executed, applied, version_at_open,
                    failed_before >>
    /\ UNCHANGED life_vars

\* `session.commit()` of one version of migrate_scripts, the end of its
\* loop (`session.close()`) and the next turn of the loop of migrate that
\* called it.
CommitScripts ==
    /\ mpc = "scripts"
    /\ idx = 2 \/ script_version \notin script_versions
    /\ \/ /\ MigCommit(sess_stmts, sess_version, sess_filled)
          /\ idx' = 1
          /\ IF script_version < LastVersion
               THEN /\ script_version' = script_version + 1
                    /\ UNCHANGED << version, mpc >>
               ELSE IF version < LastVersion
                 THEN /\ version' = version + 1
                      /\ script_version' = FirstVersion(from_schema_version)
                      /\ UNCHANGED mpc
                 ELSE /\ mpc' = "ready"
                      /\ UNCHANGED << version, script_version >>
          /\ UNCHANGED failed_in
       \/ /\ MigrateScriptsFailure(sess_filled)
          /\ UNCHANGED << idx, version, script_version >>
    /\ UNCHANGED << backups, create_db, db_file_path, script_versions,
                    from_schema_version, opens, executed, applied,
                    script_log, version_at_open,
                    failed_before >>
    /\ UNCHANGED life_vars

\* The process that opened the store ends (or gives up after the raise);
\* its session and the locals of migrate are gone.
Close ==
    /\ mpc \in {"ready", "failed"}
    /\ mpc' = "closed"
    /\ from_schema_version' = 0
    /\ version' = 0
    /\ idx' = 0
    /\ script_version' = 0
    /\ UNCHANGED << schema_version, schema, filled, backups, sess_stmts,
                    sess_version, sess_filled, create_db, db_file_path,
                    script_versions, opens, executed, applied, script_log,
                    failed_in, version_at_open,
                    failed_before >>
    /\ UNCHANGED life_vars

\* A store file as some release left it: no version row yet, or a version
\* in 1..TRANSACTIONS_DB_SCHEMA_VERSION with the batches up to it applied.
MigStoreInit ==
    /\ schema_version \in 0..TRANSACTIONS_DB_SCHEMA_VERSION
    /\ schema = Statements(2..schema_version)
    /\ filled = [v \in Versions |-> 0]
    /\ backups = {}
    /\ sess_stmts = {}
    /\ sess_version = 0
    /\ sess_filled = {}
    /\ mpc = "closed"
    /\ create_db = TRUE
    /\ db_file_path = FALSE
    /\ script_versions \in SUBSET Versions
    /\ from_schema_version = 0
    /\ version = 0
    /\ idx = 0
    /\ script_version = 0
    /\ opens = 0
    /\ executed = << >>
    /\ applied = << >>
    /\ script_log = << >>
    /\ failed_in = "none"
    /\ version_at_open = schema_version
    /\ failed_before = {}

(***************************************************************************)
(* Properties of the migration (checked under MigSpec)                     *)
(***************************************************************************)
\* << a, a+1, ..., b >>
Range(a, b) == [k \in 1..(IF b >= a THEN b - a + 1 ELSE 0) |-> a + k - 1]

IsPrefix(s, t) ==
    /\ Len(s) <= Len(t)
    /\ \A k \in 1..Len(s) : s[k] = t[k]

\* The commands of the batches of versions a..b in the order of MIGRATIONS.
RECURSIVE AllCommands(_, _)
AllCommands(a, b) ==
    IF a > b THEN << >>
    ELSE [k \in 1..Len(MIGRATIONS[a]) |-> << a, k >>] \o AllCommands(a + 1, b)

\* The versions of S within a..b, ascending.
RECURSIVE Ascending(_, _, _)
Ascending(S, a, b) ==
    IF a > b THEN << >>
    ELSE (IF a \in S THEN << a >> ELSE << >>) \o Ascending(S, a + 1, b)

\* The open ran the whole schema-change loop of migrate.
DdlPassDone ==
    /\ version_at_open > 0
    /\ version_at_open < TRANSACTIONS_DB_SCHEMA_VERSION
    /\ \/ mpc = "scripts"
       \/ failed_in = "scripts"
       \/ mpc = "ready" /\ create_db

\* C2: when a command (or the commit) of the batch of version v raises, the
\* whole batch of v is rolled back: the persisted schema is the batches up
\* to v-1 and nothing of v or later, schema_version is v-1, the session
\* holds nothing pending, the open has raised, and no command of a version
\* above v was executed.
C2_FailedBatchRolledBack ==
    (mpc = "failed" /\ failed_in = "ddl") =>
        /\ schema_version = version - 1
        /\ schema = Statements(2..(version - 1))
        /\ sess_stmts = {}
        /\ sess_version = 0
        /\ applied = Range(version_at_open + 1, version - 1)
        /\ \A k \in 1..Len(executed) : executed[k][1] <= version

\* C2 witness: the fourth command of the batch of version 2 raised, with
\* three commands of the batch pending, and later versions exist.
C2_Witness ==
    /\ mpc = "failed"
    /\ failed_in = "ddl"
    /\ version = 2
    /\ idx = 4
    /\ Len(executed) = 4

\* C3: in a migration from V0 the batches are executed for V0+1, V0+2, ...
\* in ascending order, each command once and no version skipped, and the
\* values committed to schema_version are V0+1, V0+2, ... in that order;
\* when the schema-change loop has ended they reach the target version.
C3_AscendingNoSkip ==
    version_at_open > 0 =>
        /\ IsPrefix(applied, Range(version_at_open + 1,
                                   TRANSACTIONS_DB_SCHEMA_VERSION))
        /\ IsPrefix(executed, AllCommands(version_at_open + 1,
                                          TRANSACTIONS_DB_SCHEMA_VERSION))
        /\ schema_version = version_at_open + Len(applied)
        /\ schema = Statements(2..schema_version)
        /\ DdlPassDone =>
             /\ applied = Range(version_at_open + 1,
                                TRANSACTIONS_DB_SCHEMA_VERSION)
             /\ executed = AllCommands(version_at_open + 1,
                                       TRANSACTIONS_DB_SCHEMA_VERSION)

\* C3 witness: a store at version 1 was migrated through 2, 3, 4 and 5.
C3_Witness ==
    /\ mpc = "ready"
    /\ version_at_open = 1
    /\ applied = << 2, 3, 4, 5 >>
    /\ schema_version = 5

\* C4 (as claimed): the scripts start only after the batch of every
\* version has committed, and the script of each version of the range that
\* declares one is run exactly once, in ascending order.
C4_ScriptsOnceAscending ==
    /\ script_log # << >> =>
         /\ schema_version = TRANSACTIONS_DB_SCHEMA_VERSION
         /\ applied = Range(version_at_open + 1,
                            TRANSACTIONS_DB_SCHEMA_VERSION)
    /\ IsPrefix(script_log,
                Ascending(script_versions, version_at_open + 1,
                          TRANSACTIONS_DB_SCHEMA_VERSION))
    /\ (mpc = "ready" /\ applied # << >>) =>
         script_log = Ascending(script_versions, version_at_open + 1,
                                TRANSACTIONS_DB_SCHEMA_VERSION)

\* C5: the script pass never changes the persisted schema_version, which
\* is the target version all along it and after it, whether the scripts
\* succeed or raise; a raising script leaves the persisted script results
\* as they were at the last commit, leaves nothing pending, and the open
\* raises.
C5_ScriptsKeepVersion ==
    /\ []((mpc = "scripts" \/ failed_in = "scripts" \/ script_log # << >>)
            => schema_version = TRANSACTIONS_DB_SCHEMA_VERSION)
    /\ [][mpc = "scripts" =>
            /\ schema_version' = schema_version
            /\ schema' = schema
            /\ mpc' = "failed" =>
                 /\ filled' = filled
                 /\ sess_filled' = {}
                 /\ failed_in' = "scripts"]_vars

\* C5 witness: a script raised after the scripts of an earlier version had
\* been committed.
C5_Witness ==
    /\ mpc = "failed"
    /\ failed_in = "scripts"
    /\ \E v \in Versions : filled[v] > 0 /\ v < script_version
    /\ schema_version = TRANSACTIONS_DB_SCHEMA_VERSION

\* C6: no step of any open, migration or failed migration lowers the
\* persisted schema_version.
C6_VersionNeverDecreases == [][schema_version' >= schema_version]_vars

\* C6 witness: a first open migrated a store from version 1 (its backup is
\* tagged 1), advanced it and failed; the second open found the advanced
\* version and committed a further one.
C6_Witness ==
    /\ opens = 2
    /\ applied # << >>
    /\ version_at_open > 1
    /\ backups = {1}

\* C7 (as claimed): whenever a command of a migration has been executed, a
\* backup tagged with the pre-migration version exists.
C7_BackupBeforeMigration ==
    executed # << >> => version_at_open \in backups

\* C7 (amended): when the open was given a db_file_path, a backup tagged
\* with the pre-migration version exists before the first command of the
\* migration is executed.
C7_BackupWhenPathGiven ==
    (db_file_path /\ (mpc \in {"ddl", "scripts"} \/ executed # << >>)) =>
        version_at_open \in backups

\* C7 witness: a migration with a db_file_path is under way.
C7_Witness ==
    /\ db_file_path
    /\ mpc = "ddl"
    /\ executed # << >>
    /\ backups = {version_at_open}

\* C8: opening a store whose schema_version is the target version executes
\* no command and no script, copies no backup, changes nothing persisted
\* and leaves the store ready.
C8_CurrentStoreNoMigration ==
    [][(mpc' # "closed" /\ version_at_open' = TRANSACTIONS_DB_SCHEMA_VERSION)
         => /\ mpc' = "ready"
            /\ executed' = << >>
            /\ script_log' = << >>
            /\ backups' = backups
            /\ schema_version' = schema_version
            /\ schema' = schema
            /\ filled' = filled]_vars

\* C8 witness: a store already at the target version was opened with
\* create_db and a db_file_path.
C8_Witness ==
    /\ mpc = "ready"
    /\ version_at_open = TRANSACTIONS_DB_SCHEMA_VERSION
    /\ create_db
    /\ db_file_path
    /\ opens >= 1

(***************************************************************************)
(* The transactions table and the Transaction objects                      *)
(***************************************************************************)
Ids == 1..MaxRows

\* The threads that share the TransactionDB instance.
Threads == {1, 2}

\* The ids of the rows of the users table.
Users == {1}

\* A Transaction as model.Transaction() makes it, with the last_message and
\* creation_date its maker gave it.  Dates are clock readings, 0 is None;
\* qa_score 0 is None.
NewTransaction(last_message, creation_date) ==
    [exists |-> TRUE,
     task_state |-> "queued",
     processing_state |-> NoneV,
     last_message |-> last_message,
     task_progress |-> 0,
     task_skipped |-> 0,
     task_cancelled |-> 0,
     archived |-> 0,
     status |-> NoneV,
     error |-> NoneV,
     creation_date |-> creation_date,
     start_date |-> 0,
     end_date |-> 0,
     qa_score |-> 0]

\* No row with that id.
Absent == [NewTransaction(NoneV, 0) EXCEPT !.exists = FALSE]

\* Python's truth value of a str or None.
TruthyStr(s) == s # NoneV /\ s # ""

\* json.dumps of a dict that holds t_id.
JsonWithId(id) == "{t_id:" \o ToString(id) \o "}"

\* json.loads(s) gives a dict.
IsJsonObject(s) == s = "{}" \/ \E i \in Ids : s = JsonWithId(i)

(***************************************************************************)
(* Calls and what they return                                              *)
(***************************************************************************)
MakeCall(op, id, given, processing_state, last_message, task_progress, task_state, user_id, qa_score, peek_all, creation_date) ==
    [op |-> op, id |-> id, given |-> given,
     processing_state |-> processing_state, last_message |-> last_message,
     task_progress |-> task_progress, task_state |-> task_state,
     user_id |-> user_id, qa_score |-> qa_score, peek_all |-> peek_all,
     creation_date |-> creation_date,
     cause |-> NoneV, status |-> NoneV, clear_error |-> TRUE]

NoCall == MakeCall("none", 0, FALSE, NoneV, NoneV, 0, NoneV, 0, 0, FALSE, 0)

\* create_transaction(t, user_id, qa_score=qa_score,
\*                    processing_state=..., task_state=...)
\* with t.last_message and t.creation_date as given.
CreateCall(last_message, creation_date, user_id, qa_score, processing_state, task_state) ==
    MakeCall("create_transaction", 0, TRUE, processing_state, last_message,
             0, task_state, user_id, qa_score, FALSE, creation_date)

\* set_queued(id_, last_message, processing_state)
SetQueuedCall(id, last_message, processing_state) ==
    MakeCall("set_queued", id, TRUE, processing_state, last_message, 0,
             NoneV, 0, 0, FALSE, 0)

\* peek_queued(processing_state, peek_all), or peek_queued(peek_all=...)
\* when given is FALSE.
PeekCall(given, processing_state, peek_all) ==
    MakeCall("peek_queued", 0, given, processing_state, NoneV, 0, NoneV, 0,
             0, peek_all, 0)

\* set_processing(id_, new_processing_state, last_message, task_progress)
SetProcessingCall(id, new_processing_state, last_message, task_progress) ==
    MakeCall("set_processing", id, TRUE, new_processing_state, last_message,
             task_progress, NoneV, 0, 0, FALSE, 0)

\* set_archived(id_)
SetArchivedCall(id) ==
    MakeCall("set_archived", id, TRUE, NoneV, NoneV, 0, NoneV, 0, 0, FALSE, 0)

\* A call op(id_, ...) of a method that takes the id of a row.
IdCall(op, id) == [NoCall EXCEPT !.op = op, !.id = id, !.given = TRUE]

\* set_failed(id_, cause)
SetFailedCall(id, cause) == [IdCall("set_failed", id) EXCEPT !.cause = cause]

\* set_completed(id_, clear_error)
SetCompletedCall(id, clear_error) ==
    [IdCall("set_completed", id) EXCEPT !.clear_error = clear_error]

\* set_status(id_, status)
SetStatusCall(id, status) ==
    [IdCall("set_status", id) EXCEPT !.status = status]

\* set_skipped(id_, cause), or set_skipped(id_) when cause is None.
SetSkippedCall(id, cause) ==
    [IdCall("set_skipped", id) EXCEPT !.cause = cause]

\* set_cancelled(id_, cause), or set_cancelled(id_) when cause is None.
SetCancelledCall(id, cause) ==
    [IdCall("set_cancelled", id) EXCEPT !.cause = cause]

\* set_last_message(id_, last_message)
SetLastMessageCall(id, last_message) ==
    [IdCall("set_last_message", id) EXCEPT !.last_message = last_message]

\* set_qa_score(id_, qa_score)
SetQaScoreCall(id, qa_score) ==
    [IdCall("set_qa_score", id) EXCEPT !.qa_score = qa_score]

Return(kind, id, ids, err) ==
    [kind |-> kind, id |-> id, ids |-> ids, err |-> err]

NoReturn == Return("pending", 0, << >>, "")

ReturnsNone == Return("none", 0, << >>, "")

ReturnsRow(id) == Return("row", id, << >>, "")

ReturnsQuery(ids) == Return("query", 0, ids, "")

ReturnsId(id) == Return("id", id, << >>, "")

Raises(err) == Return("raise", 0, << >>, err)

(***************************************************************************)
(* self.session: the session of a thread                                   *)
(***************************************************************************)
\* A session with nothing pending.
CleanSession ==
    [mark |-> [i \in Ids |-> "clean"],
     row |-> [i \in Ids |-> Absent],
     new |-> << >>,
     ut |-> {}]

\* The rows a query of thread t sees: the committed rows under the pending
\* updates and deletes of its session, which the query flushes first.
View(t) ==
    [i \in Ids |->
       CASE sess[t].mark[i] = "dirty" -> sess[t].row[i]
         [] sess[t].mark[i] \in {"deleted", "flushed"} -> Absent
         [] OTHER -> db[i]]

AutoflushExpunges(s) ==
    [s EXCEPT !.mark = [i \in Ids |->
                          IF s.mark[i] = "deleted" THEN "clean"
                          ELSE s.mark[i]]]

\* What a query leaves of the session s: its autoflush has sent the
\* pending deletes, and their objects have left the identity map.
Autoflushed(s) ==
    [s EXCEPT !.mark = [i \in Ids |->
                          IF s.mark[i] = "deleted" THEN "flushed"
                          ELSE s.mark[i]]]

GetQueuedOnly(t, i) ==
    IF sess[t].mark[i] = "deleted" THEN db[i]
    ELSE IF View(t)[i].exists /\ View(t)[i].task_state # "queued" THEN Absent
    ELSE View(t)[i]

\* session.query(Transaction).get(i) of thread t: an object that is in
\* the identity map is returned without a query, also one that
\* session.delete marked and no flush has sent yet.
Get(t, i) ==
    IF sess[t].mark[i] = "deleted" THEN db[i] ELSE View(t)[i]

\* The attribute writes to the loaded row i are pending; writes to an
\* object marked for deletion are lost with it.
Dirty(s, i, row) ==
    IF s.mark[i] = "deleted" THEN s
    ELSE [s EXCEPT !.mark[i] = "dirty", !.row[i] = row]

\* session.delete(t) of the row i.
Deleted(s, i) ==
    [s EXCEPT !.mark[i] = "deleted", !.row[i] = Absent]

\* The table after session.commit() of thread t: the pending insert gets
\* the next id.
Committed(t) ==
    IF sess[t].new # << >>
      THEN [View(t) EXCEPT ![id_seq + 1] = sess[t].new[1]]
      ELSE View(t)

\* session.commit()
SessCommit(t) ==
    /\ db' = Committed(t)
    /\ id_seq' = id_seq + Len(sess[t].new)
    /\ user_transactions' = user_transactions \cup sess[t].ut

(***************************************************************************)
(* The bodies of the TransactionDB methods                                 *)
(***************************************************************************)
\* utcnow()
utcnow == now

create_transaction_restamps(c) ==
    [NewTransaction(c.last_message, c.creation_date) EXCEPT
       !.task_state = IF c.task_state = "failed" THEN "failed" ELSE "queued",
       !.processing_state = c.processing_state,
       !.creation_date = utcnow,
       !.qa_score = IF c.qa_score # 0 THEN c.qa_score ELSE @]

\* create_transaction, up to session.add(t): the fields it sets on t.
create_transaction(c) ==
    [NewTransaction(c.last_message, c.creation_date) EXCEPT
       !.task_state = IF c.task_state = "failed" THEN "failed" ELSE "queued",
       !.processing_state = c.processing_state,
       !.creation_date = IF @ = 0 THEN utcnow ELSE @,
       !.qa_score = IF c.qa_score # 0 THEN c.qa_score ELSE @]

\* create_transaction, `if t.last_message:` ... `t.last_message =
\* json.dumps(lm)`: the id is put into a last_message that is a JSON object.
set_t_id(row, id) ==
    IF TruthyStr(row.last_message) /\ IsJsonObject(row.last_message)
      THEN [row EXCEPT !.last_message = JsonWithId(id)]
      ELSE row

set_queued_clears_flags(row, c) ==
    [row EXCEPT
       !.task_state = "queued",
       !.processing_state = c.processing_state,
       !.task_skipped = 0,
       !.task_cancelled = 0,
       !.last_message = IF TruthyStr(c.last_message)
                          THEN c.last_message ELSE @]

set_queued_always_replaces(row, c) ==
    [row EXCEPT
       !.task_state = "queued",
       !.processing_state = c.processing_state,
       !.last_message = c.last_message]

\* set_queued: the fields it sets on the row.
set_queued(row, c) ==
    [row EXCEPT
       !.task_state = "queued",
       !.processing_state = c.processing_state,
       !.last_message = IF TruthyStr(c.last_message)
                          THEN c.last_message ELSE @]

set_processing_keeps_flags(row, c) ==
    [row EXCEPT
       !.processing_state = c.processing_state,
       !.task_state = "processing",
       !.last_message = c.last_message,
       !.task_progress = c.task_progress,
       !.start_date = IF @ = 0 THEN utcnow ELSE @]

\* set_processing: the fields it sets on the row.
set_processing(row, c) ==
    [row EXCEPT
       !.processing_state = c.processing_state,
       !.task_state = "processing",
       !.last_message = c.last_message,
       !.task_cancelled = 0,
       !.task_skipped = 0,
       !.task_progress = c.task_progress,
       !.start_date = IF @ = 0 THEN utcnow ELSE @]

\* set_archived: the field it sets on the row.
set_archived(row) == [row EXCEPT !.archived = 1]

set_failed_end_only(row, c) ==
    [row EXCEPT
       !.task_state = "failed",
       !.end_date = IF @ = 0 THEN utcnow ELSE @,
       !.error = c.cause]

\* set_failed: the fields it sets on the row.
set_failed(row, c) ==
    [row EXCEPT
       !.task_state = "failed",
       !.start_date = IF @ = 0 THEN utcnow ELSE @,
       !.end_date = IF @ = 0 THEN utcnow ELSE @,
       !.error = c.cause]

set_completed_restamps(row, c) ==
    [row EXCEPT
       !.task_state = "completed",
       !.status = IF ~TruthyStr(@) \/ @ = "" THEN "unseen" ELSE @,
       !.start_date = IF @ = 0 THEN utcnow ELSE @,
       !.end_date = utcnow,
       !.error = IF c.clear_error THEN "" ELSE @]

set_completed_always_unseen(row, c) ==
    [row EXCEPT
       !.task_state = "completed",
       !.status = "unseen",
       !.start_date = IF @ = 0 THEN utcnow ELSE @,
       !.end_date = IF @ = 0 THEN utcnow ELSE @,
       !.error = IF c.clear_error THEN "" ELSE @]

\* set_completed: the fields it sets on the row.
set_completed(row, c) ==
    [row EXCEPT
       !.task_state = "completed",
       !.status = IF ~TruthyStr(@) \/ @ = "" THEN "unseen" ELSE @,
       !.start_date = IF @ = 0 THEN utcnow ELSE @,
       !.end_date = IF @ = 0 THEN utcnow ELSE @,
       !.error = IF c.clear_error THEN "" ELSE @]

\* set_status: the field it sets on the row.
set_status(row, c) == [row EXCEPT !.status = c.status]

set_skipped_always_records(row, c) ==
    [row EXCEPT !.task_skipped = 1, !.error = c.cause]

\* set_skipped: the fields it sets on the row.
set_skipped(row, c) ==
    [row EXCEPT
       !.task_skipped = 1,
       !.error = IF TruthyStr(c.cause) THEN c.cause ELSE @]

\* set_cancelled: the fields it sets on the row.
set_cancelled(row, c) ==
    [row EXCEPT
       !.task_cancelled = 1,
       !.error = IF TruthyStr(c.cause) THEN c.cause ELSE @]

\* set_last_message: the field it sets on the row.
set_last_message(row, c) == [row EXCEPT !.last_message = c.last_message]

\* set_qa_score: the field it sets on the row.
set_qa_score(row, c) == [row EXCEPT !.qa_score = c.qa_score]

\* The row a setter leaves in the session.
Setter(c, row) ==
    CASE c.op = "set_queued" -> set_queued(row, c)
      [] c.op = "set_processing" -> set_processing(row, c)
      [] c.op = "set_archived" -> set_archived(row)
      [] c.op = "set_failed" -> set_failed(row, c)
      [] c.op = "set_completed" -> set_completed(row, c)
      [] c.op = "set_status" -> set_status(row, c)
      [] c.op = "set_skipped" -> set_skipped(row, c)
      [] c.op = "set_cancelled" -> set_cancelled(row, c)
      [] c.op = "set_last_message" -> set_last_message(row, c)
      [] c.op = "set_qa_score" -> set_qa_score(row, c)

Setters ==
    {"set_queued", "set_processing", "set_archived", "set_failed",
     "set_completed", "set_status", "set_skipped", "set_cancelled",
     "set_last_message", "set_qa_score"}

\* order_by(Transaction.transaction_id.asc())
RECURSIVE OrderByIdAsc(_)
OrderByIdAsc(S) ==
    IF S = {} THEN << >>
    ELSE LET m == CHOOSE x \in S : \A y \in S : x <= y
         IN << m >> \o OrderByIdAsc(S \ {m})

\* The processing_state peek_queued gets: its default is 'waiting'.
PeekProcessingState(c) ==
    IF c.given THEN c.processing_state ELSE "waiting"

peek_queued_always_filters(rows, processing_state, peek_all) ==
    LET queued == OrderByIdAsc({ i \in Ids :
                      /\ rows[i].exists
                      /\ rows[i].task_state = "queued"
                      /\ rows[i].archived = 0
                      /\ rows[i].processing_state = processing_state })
    IN  IF peek_all THEN ReturnsQuery(queued)
        ELSE IF queued = << >> THEN ReturnsNone ELSE ReturnsRow(queued[1])

peek_queued_sees_archived(rows, processing_state, peek_all) ==
    LET query == { i \in Ids : /\ rows[i].exists
                               /\ rows[i].task_state = "queued" }
        filtered == IF TruthyStr(processing_state)
                      THEN { i \in query :
                               rows[i].processing_state = processing_state }
                      ELSE query
        queued == OrderByIdAsc(filtered)
    IN  IF peek_all THEN ReturnsQuery(queued)
        ELSE IF queued = << >> THEN ReturnsNone ELSE ReturnsRow(queued[1])

\* peek_queued: the query and what is returned of it.  A Query object is
\* always true, so `if queued:` never takes the `return None` below it.
peek_queued(rows, processing_state, peek_all) ==
    LET query == { i \in Ids : /\ rows[i].exists
                               /\ rows[i].task_state = "queued"
                               /\ rows[i].archived = 0 }
        filtered == IF TruthyStr(processing_state)
                      THEN { i \in query :
                               rows[i].processing_state = processing_state }
                      ELSE query
        queued == OrderByIdAsc(filtered)
    IN  IF peek_all THEN ReturnsQuery(queued)
        ELSE IF queued = << >> THEN ReturnsNone ELSE ReturnsRow(queued[1])

(***************************************************************************)
(* History: what a call found, and what the call before it returned        *)
(***************************************************************************)
\* The store as thread t finds it when it has the lock: the committed rows,
\* the rows its queries see, and the last id assigned.
Found(t) == [rows |-> db, view |-> View(t), id_seq |-> id_seq]

\* No thread holds the lock.
NothingFound ==
    [rows |-> [i \in Ids |-> Absent], view |-> [i \in Ids |-> Absent],
     id_seq |-> 0]

\* The call before was no peek_queued.
NoPeek == [call |-> NoCall, ret |-> NoReturn]

(***************************************************************************)
(* The lock decorator                                                      *)
(***************************************************************************)
CanAcquireAlways(owner, t) == TRUE

\* self.lock.acquire() of an RLock returns when no other thread owns it.
CanAcquire(owner, t) == owner = 0 \/ owner = t

\* create_transaction calls that have not inserted their row yet.
CreatesInFlight ==
    Cardinality({ u \in Threads :
                    /\ call[u].op = "create_transaction"
                    /\ pc[u] \in {"acquire", "body", "commit"} })

\* Thread t calls a method of the instance.
Call(t, c) ==
    /\ pc[t] = "idle"
    /\ c.op = "create_transaction" => id_seq + CreatesInFlight < MaxRows
    /\ pc' = [pc EXCEPT ![t] = "acquire"]
    /\ call' = [call EXCEPT ![t] = c]
    /\ tid' = [tid EXCEPT ![t] = 0]
    /\ ret' = [ret EXCEPT ![t] = NoReturn]
    /\ UNCHANGED << db_vars, lock_owner, lock_count, sess, hist_vars,
                    mig_vars, env_vars >>

\* lock: `self.lock.acquire()`
Acquire(t) ==
    /\ pc[t] = "acquire"
    /\ CanAcquire(lock_owner, t)
    /\ lock_owner' = t
    /\ lock_count' = lock_count + 1
    /\ pc' = [pc EXCEPT ![t] = "body"]
    /\ old' = Found(t)
    /\ UNCHANGED << db_vars, sess, call, tid, ret, last_peek, mig_vars, env_vars >>

\* lock: `self.lock.acquire()` of a wrapper called inside another one of the
\* same thread: the function a wrapper guards is itself a guarded method.
\* The RLock lets its owner in again and counts the hold.
NestedAcquire(t) ==
    /\ pc[t] = "body"
    /\ lock_owner = t
    /\ CanAcquire(lock_owner, t)
    /\ lock_count < MaxDepth
    /\ lock_count' = lock_count + 1
    /\ UNCHANGED << db_vars, lock_owner, sess, pc, call, tid, ret, hist_vars,
                    mig_vars, env_vars >>

\* The method up to its first session.commit(); a setter that finds no row
\* raises, and its handler rolls back.  peek_queued neither commits nor
\* rolls back.
Body(t) ==
    /\ pc[t] = "body"
    /\ LET c == call[t] IN
       CASE c.op = "create_transaction" ->
              /\ sess' = [sess EXCEPT ![t].new = << create_transaction(c) >>]
              /\ pc' = [pc EXCEPT ![t] = "commit"]
              /\ UNCHANGED ret
         [] c.op = "peek_queued" ->
              /\ ret' = [ret EXCEPT ![t] =
                           peek_queued(View(t), PeekProcessingState(c),
                                       c.peek_all)]
              /\ pc' = [pc EXCEPT ![t] = "release"]
              /\ sess' = [sess EXCEPT ![t] = Autoflushed(@)]
         [] c.op \in Setters ->
              IF Get(t, c.id).exists
                THEN /\ sess' = [sess EXCEPT ![t] =
                                   Dirty(@, c.id, Setter(c, Get(t, c.id)))]
                     /\ pc' = [pc EXCEPT ![t] = "commit"]
                     /\ UNCHANGED ret
                ELSE /\ sess' = [sess EXCEPT ![t] = CleanSession]
                     /\ ret' = [ret EXCEPT ![t] =
                                  Raises("TransactionDBException")]
                     /\ pc' = [pc EXCEPT ![t] = "release"]
    /\ UNCHANGED << db_vars, lock_owner, lock_count, call, tid, hist_vars,
                    mig_vars, env_vars >>

\* create_transaction: `except Exception: self.session.rollback()`, then
\* `if t.transaction_id: self.session.delete(t)`, which stays pending.
CreateFailure(id) ==
    IF id # 0 THEN Deleted(CleanSession, id) ELSE CleanSession

\* The first session.commit() of the method succeeds.  A setter returns;
\* create_transaction has its id and goes on to `if user_id:`.
CommitOk(t) ==
    /\ pc[t] = "commit"
    /\ SessCommit(t)
    /\ LET c == call[t]
           id == id_seq + 1
       IN
       IF c.op = "create_transaction"
         THEN /\ tid' = [tid EXCEPT ![t] = id]
              /\ IF c.user_id # 0 /\ c.user_id \notin Users
                   THEN /\ sess' = [sess EXCEPT ![t] = CreateFailure(id)]
                        /\ ret' = [ret EXCEPT ![t] =
                                     Raises("TransactionDBException")]
                        /\ pc' = [pc EXCEPT ![t] = "release"]
                   ELSE /\ sess' = [sess EXCEPT ![t] =
                                      [CleanSession EXCEPT !.ut =
                                         IF c.user_id # 0
                                           THEN {<< c.user_id, id >>}
                                           ELSE {}]]
                        /\ pc' = [pc EXCEPT ![t] = "commit2"]
                        /\ UNCHANGED ret
         ELSE /\ sess' = [sess EXCEPT ![t] = CleanSession]
              /\ ret' = [ret EXCEPT ![t] = ReturnsNone]
              /\ pc' = [pc EXCEPT ![t] = "release"]
              /\ UNCHANGED tid
    /\ UNCHANGED << now, lock_owner, lock_count, call, hist_vars, mig_vars, env_vars >>

\* create_transaction: the second session.commit() succeeds; the id is put
\* into last_message and the sequences are indexed.
CreateCommit2(t) ==
    /\ pc[t] = "commit2"
    /\ SessCommit(t)
    /\ sess' = [sess EXCEPT ![t] =
                  IF set_t_id(db[tid[t]], tid[t]) # db[tid[t]]
                    THEN Dirty(CleanSession, tid[t],
                               set_t_id(db[tid[t]], tid[t]))
                    ELSE CleanSession]
    /\ pc' = [pc EXCEPT ![t] = "commit3"]
    /\ UNCHANGED << now, lock_owner, lock_count, call, tid, ret, hist_vars,
                    mig_vars, env_vars >>

\* create_transaction: the third session.commit() succeeds;
\* `return t.transaction_id`.
CreateCommit3(t) ==
    /\ pc[t] = "commit3"
    /\ SessCommit(t)
    /\ sess' = [sess EXCEPT ![t] = CleanSession]
    /\ ret' = [ret EXCEPT ![t] = ReturnsId(tid[t])]
    /\ pc' = [pc EXCEPT ![t] = "release"]
    /\ UNCHANGED << now, lock_owner, lock_count, call, tid, hist_vars,
                    mig_vars, env_vars >>

CommitFailsPersists(t) ==
    /\ pc[t] \in {"commit", "commit2", "commit3"}
    /\ SessCommit(t)
    /\ sess' = [sess EXCEPT ![t] = CleanSession]
    /\ ret' = [ret EXCEPT ![t] = Raises("OperationalError")]
    /\ pc' = [pc EXCEPT ![t] = "release"]
    /\ UNCHANGED << now, lock_owner, lock_count, call, tid, hist_vars,
                    mig_vars, env_vars >>

\* A session.commit() raises: the handler of the method rolls back and the
\* error is raised again.
CommitFails(t) ==
    /\ pc[t] \in {"commit", "commit2", "commit3"}
    /\ sess' = [sess EXCEPT ![t] =
                  IF call[t].op = "create_transaction"
                    THEN CreateFailure(tid[t]) ELSE CleanSession]
    /\ ret' = [ret EXCEPT ![t] = Raises("OperationalError")]
    /\ pc' = [pc EXCEPT ![t] = "release"]
    /\ UNCHANGED << db_vars, lock_owner, lock_count, call, tid, hist_vars,
                    mig_vars, env_vars >>

\* lock: `self.lock.release()` gives up one hold of the RLock; the lock is
\* free when its owner gave up every hold.
LockRelease(t) ==
    /\ pc[t] = "release"
    /\ lock_count' = lock_count - 1
    /\ lock_owner' = IF lock_count = 1 THEN 0 ELSE lock_owner

UnlockOnReturn(t) ==
    /\ pc[t] = "release"
    /\ lock_count' = IF ret[t].kind = "raise" THEN lock_count
                      ELSE lock_count - 1
    /\ lock_owner' = IF lock_count' = 0 THEN 0 ELSE lock_owner
    /\ IF lock_count = 1 \/ ret[t].kind = "raise"
         THEN /\ pc' = [pc EXCEPT ![t] = "idle"]
              /\ call' = [call EXCEPT ![t] = NoCall]
              /\ ret' = [ret EXCEPT ![t] = NoReturn]
              /\ tid' = [tid EXCEPT ![t] = 0]
              /\ attempt' = [attempt EXCEPT ![t] = 1]
              /\ old' = NothingFound
         ELSE UNCHANGED << pc, call, ret, tid, attempt, old >>
    /\ UNCHANGED << db_vars, sess, job, cleaner_vars, mig_vars >>

\* lock: `finally: self.lock.release()`. The wrapper that gives up the last
\* hold is the one the caller called, and the call is over; a wrapper inside
\* another leaves the result to the `finally` of the one around it.
Unlock(t) ==
    /\ LockRelease(t)
    /\ IF lock_count = 1
         THEN /\ pc' = [pc EXCEPT ![t] = "idle"]
              /\ call' = [call EXCEPT ![t] = NoCall]
              /\ ret' = [ret EXCEPT ![t] = NoReturn]
              /\ tid' = [tid EXCEPT ![t] = 0]
              /\ attempt' = [attempt EXCEPT ![t] = 1]
              /\ old' = NothingFound
         ELSE UNCHANGED << pc, call, ret, tid, attempt, old >>
    /\ UNCHANGED << db_vars, sess, job, cleaner_vars, mig_vars >>

\* The call of thread t returns or raises to its caller.
Release(t) ==
    /\ Unlock(t)
    /\ UNCHANGED last_peek

\* The same, the caller keeping what a peek_queued gave it until its next
\* call is over.
ReleaseNoted(t) ==
    /\ Unlock(t)
    /\ last_peek' = IF call[t].op = "peek_queued"
                      THEN [call |-> call[t], ret |-> ret[t]]
                      ELSE NoPeek

(***************************************************************************)
(* Initial states and the specifications                                   *)
(***************************************************************************)
\* The tables of a store that was just created.
EmptyTables ==
    /\ db = [i \in Ids |-> Absent]
    /\ id_seq = 0
    /\ user_transactions = {}
    /\ now = 1

\* The tables of a store in which create_transaction(Transaction()) has
\* made a first row, at the clock's reading of then.
OneRowTables ==
    /\ now = 1
    /\ db = [i \in Ids |->
               IF i = 1
                 THEN create_transaction(
                          CreateCall(NoneV, 0, 0, 0, "waiting", "queued"))
                 ELSE Absent]
    /\ id_seq = 1
    /\ user_transactions = {}

\* A worker that has peeked no row.
NoJob == [id |-> 0, claimed |-> FALSE]

\* A filter option of DataCleaner: None, or a list of patterns.
NoFilter == [given |-> FALSE, patterns |-> << >>]

Filter(patterns) == [given |-> TRUE, patterns |-> patterns]

\* What a call of the constructor of DataCleaner leaves: an instance with
\* its options, or the error raised.
Cleaner(kind, err, max_folder_size, max_data_seconds, whitelist, blacklist) ==
    [kind |-> kind,
     err |-> err,
     max_folder_size |-> max_folder_size,
     max_data_seconds |-> max_data_seconds,
     whitelist |-> whitelist,
     blacklist |-> blacklist,
     removed |-> {}]

\* No DataCleaner was constructed.
NoCleaner == Cleaner("none", "", 0, 0, NoFilter, NoFilter)

\* An instance no thread is using, callers that have called nothing, and no
\* data cleaner yet, its folder empty.
IdleInstance ==
    /\ lock_owner = 0
    /\ lock_count = 0
    /\ sess = [t \in Threads |-> CleanSession]
    /\ pc = [t \in Threads |-> "idle"]
    /\ call = [t \in Threads |-> NoCall]
    /\ tid = [t \in Threads |-> 0]
    /\ ret = [t \in Threads |-> NoReturn]
    /\ old = NothingFound
    /\ last_peek = NoPeek
    /\ attempt = [t \in Threads |-> 1]
    /\ job = [t \in Threads |-> NoJob]
    /\ cleaner = NoCleaner
    /\ files = {}

\* An opened store with empty tables, and an instance no thread is using.
LifeInit == EmptyTables /\ IdleInstance

\* The store was opened at the current version: no migration ran.
MigCurrent ==
    /\ schema_version = TRANSACTIONS_DB_SCHEMA_VERSION
    /\ schema = Statements(Versions)
    /\ filled = [v \in Versions |-> 0]
    /\ backups = {}
    /\ sess_stmts = {}
    /\ sess_version = 0
    /\ sess_filled = {}
    /\ mpc = "ready"
    /\ create_db = TRUE
    /\ db_file_path = FALSE
    /\ script_versions = {}
    /\ from_schema_version = 0
    /\ version = 0
    /\ idx = 0
    /\ script_version = 0
    /\ opens = 1
    /\ executed = << >>
    /\ applied = << >>
    /\ script_log = << >>
    /\ failed_in = "none"
    /\ version_at_open = TRANSACTIONS_DB_SCHEMA_VERSION
    /\ failed_before = {}

MigInit == MigStoreInit /\ LifeInit

MigNext ==
    \/ \E c \in BOOLEAN, p \in BOOLEAN : Open(c, p)
    \/ Backup
    \/ ExecuteCommand
    \/ SetVersion
    \/ CommitVersion
    \/ RunScript
    \/ CommitScripts
    \/ Close

MigSpec == MigInit /\ [][MigNext]_vars

\* The processing states the callers use; '' is a str like any other.
Stages == {"", "waiting", "report"}

\* The calls of a single caller.
Calls ==
    { CreateCall(NoneV, 0, 0, 0, ps, "queued") : ps \in Stages }
    \cup { CreateCall("{}", 0, 1, 0, "waiting", "queued"),
           CreateCall(NoneV, 0, 2, 0, "waiting", "failed") }
    \cup { SetQueuedCall(i, NoneV, "waiting") : i \in Ids }
    \cup { SetProcessingCall(i, "report", "text", 50) : i \in Ids }
    \cup { SetArchivedCall(i) : i \in Ids }
    \cup { PeekCall(TRUE, ps, all) :
             ps \in Stages \cup {NoneV}, all \in BOOLEAN }
    \cup { PeekCall(FALSE, NoneV, all) : all \in BOOLEAN }

\* The thread of the single caller.
Caller == CHOOSE t \in Threads : \A u \in Threads : t <= u

Init == MigCurrent /\ LifeInit

Next ==
    \/ \E c \in Calls : Call(Caller, c)
    \/ Acquire(Caller)
    \/ Body(Caller)
    \/ CommitOk(Caller)
    \/ CreateCommit2(Caller)
    \/ CreateCommit3(Caller)
    \/ CommitFails(Caller)
    \/ Release(Caller)

\* One caller at a time uses the instance.
Spec == Init /\ [][Next]_vars

\* The calls of the threads that use the instance at the same time.
ConcCalls ==
    { CreateCall(NoneV, 0, 0, 0, "waiting", "queued") }
    \cup { SetProcessingCall(i, "report", "text", 50) : i \in Ids }
    \cup { SetArchivedCall(i) : i \in Ids }
    \cup { PeekCall(FALSE, NoneV, FALSE) }

ConcNext ==
    \/ \E t \in Threads, c \in ConcCalls : Call(t, c)
    \/ \E t \in Threads : Acquire(t)
    \/ \E t \in Threads : Body(t)
    \/ \E t \in Threads : CommitOk(t)
    \/ \E t \in Threads : CreateCommit2(t)
    \/ \E t \in Threads : CreateCommit3(t)
    \/ \E t \in Threads : CommitFails(t)
    \/ \E t \in Threads : Release(t)

\* Threads share the instance.
ConcSpec == Init /\ [][ConcNext]_vars

\* The calls of a caller that takes rows through their whole lifecycle.
\* The owner 2 is no row of the users table; 9 is a creation_date the
\* caller chose.
LifeCalls ==
    { CreateCall(NoneV, 0, 0, 0, "waiting", "queued"),
      CreateCall("{}", 9, 1, 0, "waiting", "queued"),
      CreateCall(NoneV, 0, 0, 0, "waiting", "failed"),
      CreateCall(NoneV, 0, 2, 0, "waiting", "queued") }
    \cup { SetQueuedCall(i, lm, "waiting") : i \in Ids, lm \in {NoneV, "retry"} }
    \cup { SetProcessingCall(i, "report", "text", 50) : i \in Ids }
    \cup { SetFailedCall(i, "crash") : i \in Ids }
    \cup { SetCompletedCall(i, TRUE) : i \in Ids }
    \cup { SetStatusCall(i, st) : i \in Ids, st \in {"", "reviewed"} }
    \cup { SetSkippedCall(i, cause) : i \in Ids, cause \in {NoneV, "", "dup"} }
    \cup { SetCancelledCall(i, cause) : i \in Ids, cause \in {NoneV, "user"} }
    \cup { SetArchivedCall(i) : i \in Ids }
    \cup { SetLastMessageCall(i, "note") : i \in Ids }
    \cup { SetQaScoreCall(i, 3) : i \in Ids }
    \cup { PeekCall(TRUE, NoneV, all) : all \in BOOLEAN }
    \cup { PeekCall(FALSE, NoneV, all) : all \in BOOLEAN }

\* Thread t calls a method of the instance at the next reading of the
\* clock.
CallLater(t, c) ==
    /\ pc[t] = "idle"
    /\ now < MaxClock
    /\ c.op = "create_transaction" => id_seq + CreatesInFlight < MaxRows
    /\ now' = now + 1
    /\ pc' = [pc EXCEPT ![t] = "acquire"]
    /\ call' = [call EXCEPT ![t] = c]
    /\ tid' = [tid EXCEPT ![t] = 0]
    /\ ret' = [ret EXCEPT ![t] = NoReturn]
    /\ UNCHANGED << db, id_seq, user_transactions, lock_owner, lock_count,
                    sess, hist_vars, mig_vars, env_vars >>

LifeNext ==
    \/ \E c \in LifeCalls : CallLater(Caller, c)
    \/ Acquire(Caller)
    \/ Body(Caller)
    \/ CommitOk(Caller)
    \/ CreateCommit2(Caller)
    \/ CreateCommit3(Caller)
    \/ CommitFails(Caller)
    \/ ReleaseNoted(Caller)

\* An opened, current store that is new or holds a first row.
LaterInit == MigCurrent /\ (EmptyTables \/ OneRowTables) /\ IdleInstance

\* One caller, the clock moving on between its calls.
LifeSpec == LaterInit /\ [][LifeNext]_vars

(***************************************************************************)
(* Properties of the lock (checked under ConcSpec)                         *)
(***************************************************************************)
\* Thread t is between the acquire and the release of the lock decorator.
InCriticalSection(t) ==
    pc[t] \in {"body", "commit", "commit2", "commit3", "release"}

\* C1: two calls of different threads on the same instance never
\* interleave: at most one thread is inside its critical section, and
\* while a thread is inside and does not move, no step of another thread
\* changes the tables, so a second call's effects appear only after the
\* first call has committed and released.
C1_NoInterleaving ==
    /\ [](\A t, u \in Threads :
            (InCriticalSection(t) /\ InCriticalSection(u)) => t = u)
    /\ [](\A t \in Threads : InCriticalSection(t) => lock_owner = t)
    /\ [][\A t \in Threads :
            (InCriticalSection(t) /\ pc'[t] = pc[t]) =>
                /\ db' = db
                /\ id_seq' = id_seq
                /\ user_transactions' = user_transactions]_vars

\* C1 witness: a thread is about to commit set_processing of a row while
\* another thread, which called set_archived for the same row, waits for
\* the lock.
C1_Witness ==
    \E t, u \in Threads :
        /\ t # u
        /\ pc[t] = "commit"
        /\ call[t].op = "set_processing"
        /\ pc[u] = "acquire"
        /\ call[u].op = "set_archived"
        /\ call[u].id = call[t].id
        /\ db[call[t].id].exists

(***************************************************************************)
(* Properties of peek_queued (checked under Spec)                          *)
(***************************************************************************)
\* The rows peek may return: queued, not archived and, with a stage, in
\* that processing_state.
Eligible(rows, staged, stage) ==
    { i \in Ids : /\ rows[i].exists
                  /\ rows[i].task_state = "queued"
                  /\ rows[i].archived = 0
                  /\ staged => rows[i].processing_state = stage }

\* r is the row of E with the lowest id, or none exactly when E is empty.
ReturnsLowest(r, E) ==
    IF E = {} THEN r = ReturnsNone
    ELSE /\ r.kind = "row"
         /\ r.id \in E
         /\ \A e \in E : r.id <= e

\* Thread t has run peek_queued for a single row and holds its result.
Peeked(t) ==
    /\ pc[t] = "release"
    /\ call[t].op = "peek_queued"
    /\ ~call[t].peek_all

\* C9 (as claimed): for every stage filter s, peek(s) returns the row with
\* the lowest id among the queued, non-archived rows whose processing_state
\* is s, and none exactly when there is no such row.
C9_PeekLowestOfStage ==
    \A t \in Threads :
        (Peeked(t) /\ call[t].given /\ call[t].processing_state # NoneV) =>
            ReturnsLowest(ret[t],
                          Eligible(View(t), TRUE, call[t].processing_state))

\* C10 (as claimed): peek() called without a stage filter returns the row
\* with the lowest id among all queued, non-archived rows, whatever their
\* processing_state.
C10_PeekWithoutFilter ==
    \A t \in Threads :
        (Peeked(t) /\ ~call[t].given) =>
            ReturnsLowest(ret[t], Eligible(View(t), FALSE, NoneV))

\* C10 (amended): peek called with the stage filter None returns the row
\* with the lowest id among all queued, non-archived rows, whatever their
\* processing_state; peek() called without the argument filters on the
\* default stage 'waiting'.
C10_PeekFilterNoneOrDefault ==
    \A t \in Threads :
        /\ (Peeked(t) /\ call[t].given /\ call[t].processing_state = NoneV) =>
              ReturnsLowest(ret[t], Eligible(View(t), FALSE, NoneV))
        /\ (Peeked(t) /\ ~call[t].given) =>
              ReturnsLowest(ret[t], Eligible(View(t), TRUE, "waiting"))

\* C10 witness: peek with the filter None returned row 2, which is not
\* 'waiting', past a row 1 that is not eligible.
C10_Witness ==
    /\ Peeked(Caller)
    /\ call[Caller].given
    /\ call[Caller].processing_state = NoneV
    /\ ret[Caller] = ReturnsRow(2)
    /\ db[1].exists
    /\ db[2].processing_state = "report"

(***************************************************************************)
(* Properties of the lifecycle operations (checked under LifeSpec)         *)
(***************************************************************************)
\* Thread t has run the method op and has not yet released the lock.
Ran(t, op) == pc[t] = "release" /\ call[t].op = op

\* The call of thread t returns without raising.
Succeeds(t) == ret[t].kind # "raise"

\* C11: peek is read-only and repeatable: when a peek has run, the stored
\* rows, the last id and the rows the caller's queries see are what the
\* call found, and a peek that follows a peek with the same arguments, no
\* other call in between, returns what that peek returned.
C11_PeekReadOnlyRepeatable ==
    \A t \in Threads :
        Ran(t, "peek_queued") =>
            /\ db = old.rows
            /\ id_seq = old.id_seq
            /\ View(t) = old.view
            /\ last_peek.call = call[t] => ret[t] = last_peek.ret

\* C11 witness: the second of two equal peeks in a row has returned row 1,
\* as the first did.
C11_Witness ==
    /\ Ran(Caller, "peek_queued")
    /\ last_peek.call = call[Caller]
    /\ last_peek.ret = ReturnsRow(1)
    /\ ret[Caller] = ReturnsRow(1)

\* The ids of the rows a peek_queued of thread t gave its caller.
PeekedIds(t) ==
    IF ret[t].kind = "row" THEN {ret[t].id}
    ELSE IF ret[t].kind = "query"
           THEN { ret[t].ids[k] : k \in 1..Len(ret[t].ids) }
           ELSE {}

\* C12: archive(id) on an existing row sets its archived flag and leaves
\* its task_state, as every other field, unchanged; no later call takes
\* the flag back; and no peek, for one row or for all, gives an archived
\* row.
C12_ArchivedNeverPeeked ==
    /\ \A t \in Threads :
         (Ran(t, "set_archived") /\ Succeeds(t)
            /\ old.view[call[t].id].exists) =>
               db[call[t].id] = [old.view[call[t].id] EXCEPT !.archived = 1]
    /\ \A i \in Ids :
         (old.rows[i].archived = 1 /\ db[i].exists) => db[i].archived = 1
    /\ \A t \in Threads :
         Ran(t, "peek_queued") =>
            \A i \in PeekedIds(t) : View(t)[i].archived = 0

\* C12 witness: a peek for all stages gave nothing although row 1 is
\* queued: the row is archived.
C12_Witness ==
    /\ Ran(Caller, "peek_queued")
    /\ call[Caller].given
    /\ call[Caller].processing_state = NoneV
    /\ ~call[Caller].peek_all
    /\ ret[Caller] = ReturnsNone
    /\ db[1].exists
    /\ db[1].task_state = "queued"
    /\ db[1].archived = 1

\* Thread t has run the method op, which returned, on a row its session
\* saw when the call began.
RanOnRow(t, op) ==
    /\ Ran(t, op)
    /\ Succeeds(t)
    /\ old.view[call[t].id].exists

Timestamps == {"creation_date", "start_date", "end_date"}

\* C14: creation_date, start_date and end_date are each written at most
\* once: no step of any operation changes or clears a timestamp of a row
\* once it is set.
C14_TimestampsWrittenOnce ==
    [][\A i \in Ids : \A d \in Timestamps :
         (db[i].exists /\ db[i][d] # 0 /\ db'[i].exists) =>
             db'[i][d] = db[i][d]]_vars

\* C14 witness: complete has run on a row that failed at an earlier reading
\* of the clock, and the row has its end_date and start_date of then.
C14_Witness ==
    /\ RanOnRow(Caller, "set_completed")
    /\ call[Caller].id = 1
    /\ old.view[1].end_date # 0
    /\ old.view[1].end_date < now
    /\ db[1].task_state = "completed"
    /\ db[1].end_date = old.view[1].end_date
    /\ db[1].start_date = old.view[1].start_date
    /\ db[1].creation_date < db[1].start_date

Flags == {"task_skipped", "task_cancelled", "archived"}

\* Row i had the flag f when the holder of the lock began its call, and
\* has it no longer.
Reverted(i, f) == old.rows[i][f] = 1 /\ db[i].exists /\ db[i][f] # 1

\* C16 (as claimed): once skipped, cancelled or archived is set on a row,
\* no later lifecycle operation resets it.
C16_FlagsNeverRevert ==
    \A i \in Ids : \A f \in Flags : ~Reverted(i, f)

\* C16 (amended): archived, once set on a row, is reset by no later
\* operation; skipped and cancelled, once set, are reset by advance on
\* that row, which clears both, and by no other operation.
C16_FlagsRevertOnlyOnAdvance ==
    /\ \A i \in Ids : ~Reverted(i, "archived")
    /\ \A i \in Ids : \A f \in {"task_skipped", "task_cancelled"} :
         Reverted(i, f) =>
            \E t \in Threads : /\ lock_owner = t
                               /\ call[t].op = "set_processing"
                               /\ call[t].id = i
    /\ \A t \in Threads :
         RanOnRow(t, "set_processing") =>
            /\ db[call[t].id].task_skipped = 0
            /\ db[call[t].id].task_cancelled = 0

\* C16 witness: advance has run on a row that was skipped and archived;
\* the row is archived still and skipped no longer.
C16_Witness ==
    /\ RanOnRow(Caller, "set_processing")
    /\ old.view[call[Caller].id].task_skipped = 1
    /\ old.view[call[Caller].id].archived = 1
    /\ db[call[Caller].id].archived = 1
    /\ db[call[Caller].id].task_skipped = 0

Created(t) == Ran(t, "create_transaction") /\ ret[t].kind = "id"

\* The row of a create that has run has a fresh id, greater than every id
\* assigned before, and the creation_date its caller gave it, or the
\* clock's reading if the caller gave none.
FreshAndDated(t) ==
    /\ ret[t].id = old.id_seq + 1
    /\ id_seq = ret[t].id
    /\ ~old.rows[ret[t].id].exists
    /\ db[ret[t].id].exists
    /\ db[ret[t].id].creation_date =
         IF call[t].creation_date # 0 THEN call[t].creation_date ELSE now

CreatedForNoOwner(t) ==
    /\ Ran(t, "create_transaction")
    /\ call[t].user_id # 0
    /\ call[t].user_id \notin Users

\* C19 (as claimed): create for an owner that does not exist fails, and
\* when the failed call returns the store holds no row of that transaction
\* and no association row: the rows of the store are those the call found.
C19_FailedCreateLeavesNoRow ==
    \A t \in Threads :
        CreatedForNoOwner(t) =>
            /\ ret[t].kind = "raise"
            /\ \A i \in Ids : db[i].exists => old.rows[i].exists
            /\ \A p \in user_transactions : old.rows[p[2]].exists

\* Thread t has run a method that takes the id of a row, and the method
\* raises.
RanAndRaised(t) ==
    /\ pc[t] = "release"
    /\ call[t].op \in Setters
    /\ ret[t].kind = "raise"

\* C20: a lifecycle operation that fails leaves every row as it was before
\* the call: an id-based operation on an id that is in no row raises
\* TransactionDBException, every id-based operation that raises, for a
\* missing row or for a commit that failed, leaves the stored rows as the
\* call found them, and none of its writes is left pending in the session.
C20_FailedOperationChangesNothing ==
    \A t \in Threads :
        /\ (pc[t] = "release" /\ call[t].op \in Setters
              /\ ~old.rows[call[t].id].exists) =>
                 ret[t] = Raises("TransactionDBException")
        /\ RanAndRaised(t) =>
              /\ db = old.rows
              /\ id_seq = old.id_seq
              /\ \A i \in Ids : sess[t].mark[i] # "dirty"
              /\ sess[t].new = << >>

\* C20 witness: the commit of advance on an existing, queued row has
\* failed, and the row is queued as before.
C20_Witness ==
    /\ RanAndRaised(Caller)
    /\ call[Caller].op = "set_processing"
    /\ ret[Caller] = Raises("OperationalError")
    /\ old.rows[call[Caller].id].exists
    /\ old.rows[call[Caller].id].task_state = "queued"
    /\ db[call[Caller].id] = old.rows[call[Caller].id]

NoColumn == "no column"

\* The columns the batches of MIGRATIONS add.
AddedColumns ==
    {"task_progress", "task_skipped", "task_cancelled", "status",
     "institution", "sequences"}

\* A row of a store of version 1, in the processing_state ps (None: NULL).
RowV1(ps) ==
    [c \in AddedColumns \cup {"processing_state"} |->
       IF c = "processing_state" THEN ps ELSE NoColumn]

\* The processing states of the rows of a store of version 1.
OldStages ==
    {NoneV, "waiting", "spm_lesion", "spm_volumetry", "volumetry_assessment",
     "report", "send_to_pacs"}

\* WHERE processing_state = '...' or != '...' of the statement st on a
\* row: a comparison with NULL is not true, negated or not.
Where(row, st) ==
    /\ row["processing_state"] # NoneV
    /\ IF st.negate THEN row["processing_state"] # st.where
       ELSE row["processing_state"] = st.where

ExecuteIgnoringWhere(row, st) == [row EXCEPT ![st.column] = st.value]

\* session.execute(command) on a row of the table: ADD COLUMN gives the
\* row the column's default, UPDATE ... SET ... WHERE sets the column of a
\* row the WHERE holds for.
Execute(row, st) ==
    IF st.op = "add_column" \/ Where(row, st)
      THEN [row EXCEPT ![st.column] = st.value]
      ELSE row

\* The row after the statements of S of the batches of versions a..b, from
\* the index i of the batch of a on, in the order of MIGRATIONS.
RECURSIVE ExecuteAll(_, _, _, _, _)
ExecuteAll(row, S, a, b, i) ==
    IF a > b THEN row
    ELSE IF i > Len(MIGRATIONS[a]) THEN ExecuteAll(row, S, a + 1, b, 1)
    ELSE ExecuteAll(IF << a, i >> \in S THEN Execute(row, MIGRATIONS[a][i])
                    ELSE row,
                    S, a, b, i + 1)

\* What the store holds of a row that a store of version 1 held in the
\* processing_state ps: the row after the statements committed since.
StoredRow(ps) ==
    ExecuteAll(RowV1(ps), schema, FirstVersion(1), LastVersion, 1)

\* What the store gives a row that is inserted now without values for the
\* added columns: their defaults.
InsertedRow(ps) ==
    [c \in AddedColumns \cup {"processing_state"} |->
       IF c = "processing_state" THEN ps
       ELSE IF \E p \in schema : /\ MIGRATIONS[p[1]][p[2]].op = "add_column"
                                 /\ MIGRATIONS[p[1]][p[2]].column = c
              THEN LET p == CHOOSE q \in schema :
                              /\ MIGRATIONS[q[1]][q[2]].op = "add_column"
                              /\ MIGRATIONS[q[1]][q[2]].column = c
                   IN  MIGRATIONS[p[1]][p[2]].value
              ELSE NoColumn]

\* The open of a store of version 1 has returned, the store migrated.
MigratedFromV1 ==
    /\ version_at_open = 1
    /\ create_db
    /\ mpc = "ready"

\* C22: when a store of version 1 has been migrated to version 5, every
\* row it held has a task_progress and a status that its processing_state
\* determines: 'report' gives task_progress 90, 'send_to_pacs' gives
\* task_progress 100 and status 'sent_to_pacs', and every other
\* processing_state gives status 'unseen'; a row inserted afterwards gets
\* task_progress 0.
C22_MigratedRows ==
    MigratedFromV1 =>
        /\ schema_version = TRANSACTIONS_DB_SCHEMA_VERSION
        /\ StoredRow("report")["task_progress"] = "90"
        /\ StoredRow("send_to_pacs")["task_progress"] = "100"
        /\ StoredRow("send_to_pacs")["status"] = "sent_to_pacs"
        /\ \A ps \in OldStages \ {NoneV, "send_to_pacs"} :
             StoredRow(ps)["status"] = "unseen"
        /\ \A ps \in OldStages : InsertedRow(ps)["task_progress"] = "0"

\* C22 witness: a store of version 1 was opened with two rows, one in
\* 'report' and one 'waiting', and the open has migrated it; the first has
\* task_progress 90, the second 0, and both are 'unseen'.
C22_Witness ==
    /\ MigratedFromV1
    /\ opens = 1
    /\ StoredRow("report")["task_progress"] = "90"
    /\ StoredRow("report")["status"] = "unseen"
    /\ StoredRow("waiting")["task_progress"] = "0"
    /\ StoredRow("waiting")["status"] = "unseen"

(***************************************************************************)
(* The transactions of migrate (checked under MigSpec)                     *)
(***************************************************************************)
\* C24 (as claimed): the commit of the schema changes of version v and the
\* advance of the persisted version counter to v are two transactions: no
\* commit of migrate's schema-change loop makes schema changes persistent
\* and moves the counter at once.
C24_SeparateTransactions ==
    [][(mpc = "ddl" /\ schema' # schema) =>
           schema_version' = schema_version]_vars

\* C24 (amended): the schema changes of version v and the advance of the
\* persisted version counter to v are committed by one commit: in every
\* state the committed schema changes are those of the versions up to the
\* counter, so neither are the changes of v committed while the counter
\* reads v-1, nor does the counter read v while changes of v are
\* uncommitted; and the counter's pending write is in the session only
\* together with all the changes of its version.
C24_BatchAndVersionInOneCommit ==
    /\ schema = Statements(2..schema_version)
    /\ sess_version # 0 => sess_stmts = Statements({sess_version})

\* C24 witness: the open of a store of version 1 has committed the batch
\* of version 2 with the counter and is at the first command of version 3.
C24_Witness ==
    /\ mpc = "ddl"
    /\ version_at_open = 1
    /\ version = 3
    /\ idx = 1
    /\ schema_version = 2
    /\ Statements({2}) \subseteq schema
    /\ applied = << 2 >>

(***************************************************************************)
(* Lifecycle operations and their transactions (checked under LifeSpec)    *)
(***************************************************************************)
\* The methods that write rows.
Mutators == Setters \cup {"create_transaction"}

\* C25 (as claimed): every mutating lifecycle operation, create included,
\* runs within a single committed transaction: while the operation has
\* not completed, the stored rows, which every other process and instance
\* reads, are those the operation found, and when it raises, none of its
\* writes is committed.
C25_SingleCommittedTransaction ==
    \A t \in Threads :
        (InCriticalSection(t) /\ call[t].op \in Mutators) =>
            /\ pc[t] # "release" => db = old.rows
            /\ (pc[t] = "release" /\ ret[t].kind = "raise") => db = old.rows

(***************************************************************************)
(* The lock under fair scheduling                                          *)
(***************************************************************************)
\* An opened store that holds one row, and an instance no thread is using.
OneRowInit == MigCurrent /\ OneRowTables /\ IdleInstance

\* The calls of threads that contend for the lock: one that succeeds, one
\* that raises because the store has no row 2, one that commits nothing.
LockCalls ==
    { SetProcessingCall(1, "report", "text", 50),
      SetArchivedCall(2),
      PeekCall(FALSE, NoneV, FALSE) }

\* The steps of thread t once it has the lock.
Run(t) ==
    \/ NestedAcquire(t)
    \/ Body(t)
    \/ CommitOk(t)
    \/ CommitFails(t)
    \/ Release(t)

LockNext ==
    \/ \E t \in Threads, c \in LockCalls : Call(t, c)
    \/ \E t \in Threads : Acquire(t)
    \/ \E t \in Threads : NestedAcquire(t)
    \/ \E t \in Threads : Body(t)
    \/ \E t \in Threads : CommitOk(t)
    \/ \E t \in Threads : CommitFails(t)
    \/ \E t \in Threads : Release(t)

\* Fair scheduling: a thread that can take a step inside its call takes one,
\* and a thread that finds the lock free again and again gets it.
LockFairness ==
    \A t \in Threads : WF_vars(Run(t)) /\ SF_vars(Acquire(t))

\* Threads share the instance of a store that holds one row, under fair
\* scheduling.
LockSpec == OneRowInit /\ [][LockNext]_vars /\ LockFairness

\* Thread t holds the lock.
Holds(t) == lock_owner = t /\ lock_count > 0

\* C26: the lock is released on every exit path of a guarded operation,
\* return and raise alike, nested calls of the same thread included: a
\* thread that is in no operation holds the lock zero times, the lock has an
\* owner exactly while it is held, and under fair scheduling every thread
\* waiting for the lock acquires it and every holder gives it up.
C26_LockAlwaysReleased ==
    /\ [](\A t \in Threads : pc[t] \in {"idle", "acquire"} => ~Holds(t))
    /\ []((lock_owner = 0) <=> (lock_count = 0))
    /\ \A t \in Threads : (pc[t] = "acquire") ~> Holds(t)
    /\ \A t \in Threads : Holds(t) ~> (pc[t] = "idle")

\* A nested call of thread 1 raised and its inner wrapper is about to give
\* up its hold, thread 2 waiting for the lock.
C26_Witness ==
    /\ pc[1] = "release"
    /\ ret[1].kind = "raise"
    /\ lock_owner = 1
    /\ lock_count = 2
    /\ pc[2] = "acquire"

(***************************************************************************)
(* The retry decorator, applied outside the lock decorator                 *)
(***************************************************************************)
\* The attempts t_db_retry makes of one call before it gives up.
MaxAttempts == 2

\* The errors t_db_retry takes as transient: those of the storage, as a
\* failed commit raises; a TransactionDBException is none.
Transient(err) == err = "OperationalError"

CanRetryUnbounded(t) ==
    /\ ret[t].kind = "raise"
    /\ Transient(ret[t].err)

\* t_db_retry: the attempt raised a transient error and attempts are left.
CanRetry(t) ==
    /\ ret[t].kind = "raise"
    /\ Transient(ret[t].err)
    /\ attempt[t] < MaxAttempts

RetryHoldingLock(t) ==
    /\ pc[t] = "release"
    /\ CanRetry(t)
    /\ pc' = [pc EXCEPT ![t] = "acquire"]
    /\ ret' = [ret EXCEPT ![t] = NoReturn]
    /\ tid' = [tid EXCEPT ![t] = 0]
    /\ attempt' = [attempt EXCEPT ![t] = attempt[t] + 1]
    /\ old' = NothingFound
    /\ UNCHANGED << db_vars, lock_owner, lock_count, sess, call, last_peek,
                    job, cleaner_vars, mig_vars >>

\* `@t_db_retry` above `@lock`: the lock wrapper's `finally` releases the
\* lock, the error reaches t_db_retry, and it calls the guarded method once
\* more with the same arguments.
Retry(t) ==
    /\ LockRelease(t)
    /\ lock_count = 1
    /\ CanRetry(t)
    /\ pc' = [pc EXCEPT ![t] = "acquire"]
    /\ ret' = [ret EXCEPT ![t] = NoReturn]
    /\ tid' = [tid EXCEPT ![t] = 0]
    /\ attempt' = [attempt EXCEPT ![t] = attempt[t] + 1]
    /\ old' = NothingFound
    /\ UNCHANGED << db_vars, sess, call, last_peek, job, cleaner_vars,
                    mig_vars >>

\* t_db_retry hands the result, or the error it retries no more, to the
\* caller.
Propagate(t) ==
    /\ ~CanRetry(t)
    /\ Release(t)

\* The calls of threads whose calls are retried: two that find their row,
\* one that finds none.
RetryCalls ==
    { SetProcessingCall(1, "report", "text", 50),
      SetFailedCall(1, "crash"),
      SetArchivedCall(2) }

\* The steps of thread t once it has the lock, up to the end of the attempt.
Attempt(t) ==
    \/ Body(t)
    \/ CommitOk(t)
    \/ CommitFails(t)
    \/ Retry(t)
    \/ Propagate(t)

RetryNext ==
    \/ \E t \in Threads, c \in RetryCalls : Call(t, c)
    \/ \E t \in Threads : Acquire(t)
    \/ \E t \in Threads : Body(t)
    \/ \E t \in Threads : CommitOk(t)
    \/ \E t \in Threads : CommitFails(t)
    \/ \E t \in Threads : Retry(t)
    \/ \E t \in Threads : Propagate(t)

\* Fair scheduling, as for the lock.
RetryFairness ==
    \A t \in Threads : WF_vars(Attempt(t)) /\ SF_vars(Acquire(t))

\* Threads share the instance of a store that holds one row; their calls
\* are retried, under fair scheduling.
RetrySpec == OneRowInit /\ [][RetryNext]_vars /\ RetryFairness

\* The attempt of thread t ended in an error.
AttemptRaised(t) == pc[t] = "release" /\ ret[t].kind = "raise"

\* C27: an operation is attempted at most MaxAttempts times; an attempt is
\* followed by another only when it raised a transient error; an attempt
\* that raised, transient or not, leaves the stored rows as it found them;
\* and every operation called comes to its end.
C27_BoundedRetry ==
    /\ [](\A t \in Threads : attempt[t] <= MaxAttempts)
    /\ [][\A t \in Threads :
            attempt'[t] > attempt[t] =>
                AttemptRaised(t) /\ Transient(ret[t].err)]_vars
    /\ [](\A t \in Threads : AttemptRaised(t) => db = old.rows)
    /\ \A t \in Threads : (pc[t] # "idle") ~> (pc[t] = "idle")

\* The last attempt of a set_processing of thread 1 raised a transient
\* error again, and the row is as the attempt found it.
C27_Witness ==
    /\ AttemptRaised(1)
    /\ call[1].op = "set_processing"
    /\ Transient(ret[1].err)
    /\ attempt[1] = MaxAttempts
    /\ ~CanRetry(1)
    /\ db = old.rows

\* Thread t waits to make another attempt of its call.
BetweenAttempts(t) == pc[t] = "acquire" /\ attempt[t] > 1

\* C30: the lock is not held between the attempts of a retried operation,
\* so that the other threads can take it, and each attempt runs under the
\* lock from its first step to its last.
C30_LockFreeBetweenAttempts ==
    \A t \in Threads :
        /\ BetweenAttempts(t) => lock_owner # t
        /\ InCriticalSection(t) => Holds(t)

\* Thread 1 waits for its second attempt while a set_failed of thread 2,
\* which took the lock after the first attempt gave it up, has committed
\* its change.
C30_Witness ==
    /\ BetweenAttempts(1)
    /\ Ran(2, "set_failed")
    /\ attempt[2] = 1
    /\ Succeeds(2)
    /\ db # old.rows

(***************************************************************************)
(* Workers, each with a TransactionDB of its own on the same store         *)
(***************************************************************************)
\* What a worker calls next: with no row in hand it looks for one; it
\* advances the row it peeked; it completes the row it advanced.
WorkerCalls(t) ==
    IF job[t] = NoJob
      THEN { PeekCall(FALSE, NoneV, FALSE) }
    ELSE IF ~job[t].claimed
      THEN { SetProcessingCall(job[t].id, "report", "text", 50) }
    ELSE { SetCompletedCall(job[t].id, TRUE) }

\* lock: `self.lock.acquire()` of the worker's own instance, a lock no other
\* thread takes.  The backing storage is taken to run the transactions of
\* the processes one at a time.
WorkerAcquire(t) ==
    /\ pc[t] = "acquire"
    /\ \A u \in Threads \ {t} : ~InCriticalSection(u)
    /\ pc' = [pc EXCEPT ![t] = "body"]
    /\ old' = Found(t)
    /\ UNCHANGED << db_vars, lock_owner, lock_count, sess, call, tid, ret,
                    last_peek, mig_vars, env_vars >>

\* What the worker has in hand after its call: the row peek_queued gave it,
\* claimed when its set_processing returned, none when its set_completed
\* returned.
JobAfter(j, c, r) ==
    CASE c.op = "peek_queued" ->
           IF r.kind = "row" THEN [id |-> r.id, claimed |-> FALSE] ELSE NoJob
      [] c.op = "set_processing" /\ r.kind # "raise" ->
           [j EXCEPT !.claimed = TRUE]
      [] c.op = "set_completed" /\ r.kind # "raise" -> NoJob
      [] OTHER -> j

\* lock: `finally: self.lock.release()` of the worker's own instance, and
\* the worker has the result of its call.
WorkerRelease(t) ==
    /\ pc[t] = "release"
    /\ job' = [job EXCEPT ![t] = JobAfter(@, call[t], ret[t])]
    /\ pc' = [pc EXCEPT ![t] = "idle"]
    /\ call' = [call EXCEPT ![t] = NoCall]
    /\ ret' = [ret EXCEPT ![t] = NoReturn]
    /\ tid' = [tid EXCEPT ![t] = 0]
    /\ old' = NothingFound
    /\ UNCHANGED << db_vars, lock_owner, lock_count, sess, last_peek, attempt,
                    cleaner_vars, mig_vars >>

WorkersNext ==
    \/ \E t \in Threads : \E c \in WorkerCalls(t) : Call(t, c)
    \/ \E t \in Threads : WorkerAcquire(t)
    \/ \E t \in Threads : Body(t)
    \/ \E t \in Threads : CommitOk(t)
    \/ \E t \in Threads : CommitFails(t)
    \/ \E t \in Threads : WorkerRelease(t)

\* Two workers in separate processes on a store that holds one queued row.
WorkersSpec == OneRowInit /\ [][WorkersNext]_vars

\* C28: set_processing is conditioned on the id alone: the advance of a row
\* the worker peeked is refused in no task_state of the row, it fails only
\* when its commit fails, and when it returns the row is processing,
\* whatever it was before.
C28_AdvanceOnlyById ==
    \A t \in Threads :
        Ran(t, "set_processing") =>
            /\ ~Succeeds(t) => ret[t].err = "OperationalError"
            /\ Succeeds(t) => db[call[t].id].task_state = "processing"

\* Both workers peeked row 1 while it was queued, and the set_processing of
\* each of them returned: the row is claimed twice.
C28_Witness ==
    /\ job[1] = [id |-> 1, claimed |-> TRUE]
    /\ job[2] = [id |-> 1, claimed |-> TRUE]

\* The row has its start_date, and its end_date.
Started(row) == row.start_date # 0

Ended(row) == row.end_date # 0

Files ==
    { [name |-> "1.dcm", ext |-> ".dcm"],
      [name |-> "2.nii", ext |-> ".nii"] }

\* The filter options a caller passes.
Filters == { NoFilter, Filter(<< "*.dcm" >>), Filter(<< "mock" >>) }

\* fnmatch of a file name and a pattern: `*.ext`, or a name.
Fnmatch(f, p) ==
    CASE p = "*.dcm" -> f.ext = ".dcm"
      [] p = "*.nii" -> f.ext = ".nii"
      [] OTHER -> f.name = p

\* The file matches a pattern of the list.
MatchesAny(f, patterns) ==
    \E k \in 1..Len(patterns) : Fnmatch(f, patterns[k])

DataCleanerAcceptsBoth(max_folder_size, max_data_seconds, whitelist, blacklist) ==
    Cleaner("instance", "", max_folder_size, max_data_seconds, whitelist,
            blacklist)

\* DataCleaner(folder, max_folder_size, max_data_seconds, whitelist=...,
\* blacklist=...): the two filters exclude each other.
DataCleaner(max_folder_size, max_data_seconds, whitelist, blacklist) ==
    IF whitelist.given /\ blacklist.given
      THEN Cleaner("raise", "ValueError", max_folder_size, max_data_seconds,
                   whitelist, blacklist)
      ELSE Cleaner("instance", "", max_folder_size, max_data_seconds,
                   whitelist, blacklist)

\* clean_folder: the files it removes are those a blacklist names, or
\* those a whitelist does not name.
Removable(c, F) ==
    IF c.blacklist.given
      THEN { f \in F : MatchesAny(f, c.blacklist.patterns) }
      ELSE { f \in F : ~MatchesAny(f, c.whitelist.patterns) }

\* A file is written to the folder.
PutFile(f) ==
    /\ f \notin files
    /\ files' = files \cup {f}
    /\ UNCHANGED << mig_vars, db_vars, thread_vars, hist_vars, attempt, job,
                    cleaner >>

\* The caller constructs a DataCleaner for the folder.
Construct(max_folder_size, max_data_seconds, whitelist, blacklist) ==
    /\ cleaner' = DataCleaner(max_folder_size, max_data_seconds, whitelist,
                              blacklist)
    /\ UNCHANGED << mig_vars, db_vars, thread_vars, hist_vars, attempt, job,
                    files >>

\* clean_folder(folder, dry_run) of a cleaner that has a filter: it returns
\* the files to remove, and removes them unless the run is dry.
CleanFolder(dry_run) ==
    /\ cleaner.kind = "instance"
    /\ cleaner.whitelist.given \/ cleaner.blacklist.given
    /\ cleaner' = [cleaner EXCEPT !.removed = Removable(cleaner, files)]
    /\ files' = IF dry_run THEN files ELSE files \ Removable(cleaner, files)
    /\ UNCHANGED << mig_vars, db_vars, thread_vars, hist_vars, attempt, job >>

CleanerNext ==
    \/ \E f \in Files : PutFile(f)
    \/ \E max_folder_size \in {-1, 1024}, max_data_seconds \in {-1, 15},
          whitelist \in Filters, blacklist \in Filters :
          Construct(max_folder_size, max_data_seconds, whitelist, blacklist)
    \/ \E dry_run \in BOOLEAN : CleanFolder(dry_run)

\* A folder that fills, and the cleaners constructed for it.
CleanerSpec == Init /\ [][CleanerNext]_vars

\* C23: a constructor call that was given both a whitelist and a blacklist
\* raised ValueError and left no cleaner; one that was given at most one of
\* them left a cleaner with the options given.
C23_BothFiltersRejected ==
    cleaner.kind # "none" =>
        IF cleaner.whitelist.given /\ cleaner.blacklist.given
          THEN /\ cleaner.kind = "raise"
               /\ cleaner.err = "ValueError"
               /\ cleaner.removed = {}
          ELSE /\ cleaner.kind = "instance"
               /\ cleaner.err = ""

\* The constructor was given the same list as whitelist and as blacklist,
\* for a folder that holds a file, and raised.
C23_Witness ==
    /\ cleaner.kind = "raise"
    /\ cleaner.whitelist = Filter(<< "*.dcm" >>)
    /\ cleaner.blacklist = Filter(<< "*.dcm" >>)
    /\ files # {}

(***************************************************************************)
(* Re-opening a store after a failed migration (checked under MigSpec)     *)
(***************************************************************************)
\* An open before this one raised in the place given.
FailedBefore(where) == where \in failed_before

\* This open has taken no migration path: no backup, no command, no script.
NoMigrationPath ==
    /\ mpc \in {"ready", "closed"}
    /\ executed = << >>
    /\ applied = << >>
    /\ script_log = << >>
    /\ failed_in = "none"

\* C31: an open resumes from the recorded schema_version: no command of a
\* version at or below the version recorded when the open began is
\* executed, and after an open that raised the first command executed is
\* the first of the version after the recorded one.  When migrate_scripts
\* raises, the recorded version is the target already, and every open after
\* an open that raised in migrate_scripts finds the store at the target and
\* takes no migration path: no script is run again.
C31_ReopenResumesFromRecordedVersion ==
    /\ \A k \in 1..Len(executed) : executed[k][1] > version_at_open
    /\ failed_before # {} /\ executed # << >> =>
           executed[1] = << version_at_open + 1, 1 >>
    /\ failed_in = "scripts" =>
           schema_version = TRANSACTIONS_DB_SCHEMA_VERSION
    /\ FailedBefore("scripts") =>
           /\ version_at_open = TRANSACTIONS_DB_SCHEMA_VERSION
           /\ schema_version = TRANSACTIONS_DB_SCHEMA_VERSION
           /\ NoMigrationPath

\* A store whose scripts of some version never ran to their commit was
\* opened again, to be updated, after migrate_scripts raised: it is ready
\* at the target version and no script was run.
C31_Witness ==
    /\ FailedBefore("scripts")
    /\ opens = 2
    /\ create_db
    /\ mpc = "ready"
    /\ \E v \in script_versions : filled[v] = 0
    /\ script_log = << >>

====
